---- MODULE Spec2Model ----
(***************************************************************************)
(* Model of generate_icon.py: the icon renderer                            *)
(* (create_matrix_icon_pixmap) and the three packaging branches of main    *)
(* (create_ico_file, create_icns_file, the inline PNG branch).             *)
(*                                                                         *)
(* Two specifications:                                                     *)
(*   SpecRender  the renderer as a pure function of size, applied to       *)
(*               every size of 1..MaxSize;                                 *)
(*   Spec        one invocation of main on one platform, with the          *)
(*               optional capabilities present or absent, a previous       *)
(*               run's files present or absent, and every call that can    *)
(*               fail failing or not.                                      *)
(***************************************************************************)
EXTENDS Integers, Sequences, FiniteSets

VARIABLES
    \* ---- renderer (SpecRender)
    size,           \* the requested size
    rendered,       \* the pixmap returned for it, NoPixmap before the call
    \* ---- packaging (Spec)
    platform,       \* sys.platform: "win32" | "darwin" | "other"
    hasPIL,         \* whether "from PIL import Image" succeeds
    hasIconutil,    \* whether shutil.which('iconutil') finds the tool
    prior,          \* whether a previous run left its files in place
    pc,             \* position in main / create_ico_file / create_icns_file
    fs,             \* the three files beside the script: path -> content
    iconsetExists,  \* whether the directory app_icon.iconset exists
    staged,         \* the files in app_icon.iconset: set of [name, size]
    images,         \* create_ico_file's list "images"
    idx,            \* index of the running for loop (1-based)
    pixmap,         \* the pixmap about to be saved
    created,        \* PIL Image.save: the file did not exist when it was opened
    result,         \* the packaging function's return value: "None"|"True"|"False"
    log             \* the calls made so far, in order

vars == <<size, rendered, platform, hasPIL, hasIconutil, prior, pc, fs,
          iconsetExists, staged, images, idx, pixmap, created, result, log>>

renderVars == <<size, rendered>>
packVars == <<platform, hasPIL, hasIconutil, prior, pc, fs, iconsetExists,
              staged, images, idx, pixmap, created, result, log>>

\* Sizes 1..MaxSize are rendered under SpecRender (the thresholds are 32, 48, 64).
MaxSize == 70

Max(a, b) == IF a >= b THEN a ELSE b

(***************************************************************************)
(* The renderer.  A pixmap is its side and the sequence of paint commands  *)
(* applied to it, each with the pen and brush in force when it was issued. *)
(***************************************************************************)
BLACK == <<0, 0, 0>>
GREEN == <<0, 255, 65>>
DARKGREEN == <<0, 200, 50>>
NoBrush == <<>>
NoPen == <<>>

NoPixmap == [side |-> 0, cmds |-> <<>>]

Cmd(op, a, b, c, d, pen, brush) ==
    [op |-> op, a |-> a, b |-> b, c |-> c, d |-> d, pen |-> pen, brush |-> brush]

\* QPixmap(size, size); pixmap.fill(QColor(0, 0, 0)); QPainter(pixmap)
NewPainter(sz) ==
    [side |-> sz, pen |-> BLACK, brush |-> NoBrush,
     cmds |-> <<Cmd("fill", 0, 0, sz, sz, NoPen, BLACK)>>]

setPen(pt, colour) == [pt EXCEPT !.pen = colour]
setBrush(pt, colour) == [pt EXCEPT !.brush = colour]
drawRect(pt, x, y, w, h) ==
    [pt EXCEPT !.cmds = Append(@, Cmd("rect", x, y, w, h, pt.pen, pt.brush))]
drawLine(pt, x1, y1, x2, y2) ==
    [pt EXCEPT !.cmds = Append(@, Cmd("line", x1, y1, x2, y2, pt.pen, NoBrush))]
drawEllipse(pt, x, y, w, h) ==
    [pt EXCEPT !.cmds = Append(@, Cmd("ellipse", x, y, w, h, pt.pen, pt.brush))]

\* lines 30-33
PaintBorder(pt, sz) ==
    LET border_width == Max(2, sz \div 16)
    IN  drawRect(setBrush(setPen(pt, GREEN), NoBrush),
                 border_width, border_width,
                 sz - border_width * 2, sz - border_width * 2)

\* lines 39-42
PaintDiagonals(pt, sz) ==
    LET margin == sz \div 8
        p1 == setPen(pt, GREEN)
        p2 == drawLine(p1, margin, margin, sz - margin, sz - margin)
    IN  drawLine(p2, sz - margin, margin, margin, sz - margin)

\* lines 45-48
PaintDot(pt, sz) ==
    LET center == sz \div 2
        dot_size == Max(2, sz \div 16)
    IN  drawEllipse(setBrush(pt, GREEN), center - dot_size, center - dot_size,
                    dot_size * 2, dot_size * 2)

\* lines 53-67
PaintCorners(pt, sz) ==
    LET corner_size == sz \div 4
        margin == sz \div 16
        p0 == setPen(pt, DARKGREEN)
        p1 == drawLine(p0, margin, margin, corner_size, margin)
        p2 == drawLine(p1, margin, margin, margin, corner_size)
        p3 == drawLine(p2, sz - margin, margin, sz - corner_size, margin)
        p4 == drawLine(p3, sz - margin, margin, sz - margin, corner_size)
        p5 == drawLine(p4, margin, sz - margin, corner_size, sz - margin)
        p6 == drawLine(p5, margin, sz - margin, margin, sz - corner_size)
        p7 == drawLine(p6, sz - margin, sz - margin, sz - corner_size, sz - margin)
    IN  drawLine(p7, sz - margin, sz - margin, sz - margin, sz - corner_size)

\* painter.end(); return pixmap
EndPainter(pt) == [side |-> pt.side, cmds |-> pt.cmds]

\* Mutant: the dot nested under the diagonals' threshold.
create_matrix_icon_pixmap_DotUnder48(sz) ==
    LET p1 == PaintBorder(NewPainter(sz), sz)
        p2 == IF sz >= 32 /\ sz >= 48
              THEN PaintDot(PaintDiagonals(p1, sz), sz) ELSE p1
        p3 == IF sz >= 32 /\ sz >= 64 THEN PaintCorners(p2, sz) ELSE p2
    IN  EndPainter(p3)

\* Mutant: painted in threshold order, the dot before the diagonals.
create_matrix_icon_pixmap_DotFirst(sz) ==
    LET p1 == PaintBorder(NewPainter(sz), sz)
        p2 == IF sz >= 32 THEN PaintDot(p1, sz) ELSE p1
        p3 == IF sz >= 32 /\ sz >= 48 THEN PaintDiagonals(p2, sz) ELSE p2
        p4 == IF sz >= 32 /\ sz >= 64 THEN PaintCorners(p3, sz) ELSE p3
    IN  EndPainter(p4)

create_matrix_icon_pixmap(sz) ==
    LET p1 == PaintBorder(NewPainter(sz), sz)
        p2 == IF sz >= 32
              THEN LET d == IF sz >= 48 THEN PaintDiagonals(p1, sz) ELSE p1
                       e == PaintDot(d, sz)
                   IN  IF sz >= 64 THEN PaintCorners(e, sz) ELSE e
              ELSE p1
    IN  EndPainter(p2)

(***************************************************************************)
(* Packaging: paths, file contents, and the library calls main makes.      *)
(***************************************************************************)
IdlePath == [parent |-> "", name |-> "", suffix |-> ""]

\* script_dir / 'app_icon.ico', script_dir / 'app_icon.icns', script_dir / 'app_icon.png'
IcoFile == [parent |-> "script_dir", name |-> "app_icon", suffix |-> ".ico"]
IcnsFile == [parent |-> "script_dir", name |-> "app_icon", suffix |-> ".icns"]
PngFile == [parent |-> "script_dir", name |-> "app_icon", suffix |-> ".png"]
NoPath == IdlePath
Paths == {IcoFile, IcnsFile, PngFile}

\* Mutant: the extension is not forced.
with_suffix_Same(path, sfx) == path

\* pathlib's Path.with_suffix
with_suffix(path, sfx) == [path EXCEPT !.suffix = sfx]

NoFile == [kind |-> "absent", frames |-> <<>>]
Partial == [kind |-> "partial", frames |-> <<>>]
File(kind, frames) == [kind |-> kind, frames |-> frames]

RECURSIVE SortedSeq(_)
SortedSeq(S) ==
    IF S = {} THEN <<>>
    ELSE LET m == CHOOSE x \in S : \A y \in S : x <= y
         IN  <<m>> \o SortedSeq(S \ {m})

Range(s) == {s[i] : i \in DOMAIN s}

\* sizes = [16, 32, 48, 64, 128, 256]
IcoSizes == <<16, 32, 48, 64, 128, 256>>

\* the dict "sizes" of create_icns_file, in insertion order
IconsetSlots ==
    << [name |-> "icon_16x16.png", size |-> 16],
       [name |-> "icon_16x16@2x.png", size |-> 32],
       [name |-> "icon_32x32.png", size |-> 32],
       [name |-> "icon_32x32@2x.png", size |-> 64],
       [name |-> "icon_128x128.png", size |-> 128],
       [name |-> "icon_128x128@2x.png", size |-> 256],
       [name |-> "icon_256x256.png", size |-> 256],
       [name |-> "icon_256x256@2x.png", size |-> 512],
       [name |-> "icon_512x512.png", size |-> 512],
       [name |-> "icon_512x512@2x.png", size |-> 1024] >>

\* Valid files found beside the script when an earlier run or the user left
\* some there (their frames differ from anything this run writes).
PriorFs ==
    [p \in Paths |->
        IF p = IcoFile THEN File("ICO", <<24>>)
        ELSE IF p = IcnsFile THEN File("ICNS", <<24>>)
        ELSE File("PNG", <<24>>)]

\* pixmap.toImage(); bits(); Image.frombuffer('RGBA', (width, height), arr, 'raw', 'BGRA', 0, 1)
PilFromPixmap(pm) ==
    [mode |-> "RGBA", width |-> pm.side, height |-> pm.side, cmds |-> pm.cmds]

\* The images Image.save hands to the ICO encoder: the image save is called on,
\* then encoderinfo's append_images.
Provided(im, append_images) == <<im>> \o append_images

\* PIL's ICO encoder: one frame per requested size that fits the base image.
IcoEncode(im, sizes, append_images) ==
    File("ICO",
         SortedSeq({s \in Range(sizes) :
                       s <= im.width /\ s <= im.height /\ s <= 256}))

\* QPixmap.save(path, 'PNG'): writes the file, or returns False and writes nothing.
QPixmapSave(files, path, pm, outcome) ==
    IF outcome = "ok" THEN [files EXCEPT ![path] = File("PNG", <<pm.side>>)]
    ELSE files

Ev(ev, n, s, p) == [ev |-> ev, n |-> n, s |-> s, p |-> p]
print(tag) == Ev("print", 0, tag, NoPath)
raise(exc) == Ev("raise", 0, exc, NoPath)

SaveOutcomes == {"ok", "fail"}

(***************************************************************************)
(* SpecRender: the renderer applied to every size of 1..MaxSize and to the  *)
(* sizes the packaging code asks for.                                      *)
(***************************************************************************)
\* Every size the packaging code asks for (lines 81, 104, 122, 136-147, 193).
PackagedSizes == Range(IcoSizes) \cup {IconsetSlots[i].size : i \in DOMAIN IconsetSlots}

InitRender ==
    /\ size \in (1..MaxSize) \cup PackagedSizes
    /\ rendered = NoPixmap
    /\ platform = "other" /\ hasPIL = FALSE /\ hasIconutil = FALSE
    /\ prior = FALSE /\ pc = "idle"
    /\ fs = [p \in {IdlePath} |-> [kind |-> "absent", frames |-> <<>>]]
    /\ iconsetExists = FALSE /\ staged = {} /\ images = <<>> /\ idx = 0
    /\ pixmap = NoPixmap /\ created = FALSE /\ result = "None" /\ log = <<>>

\* pixmap = create_matrix_icon_pixmap(size)
Render ==
    /\ rendered = NoPixmap
    /\ rendered' = create_matrix_icon_pixmap(size)
    /\ UNCHANGED <<size, packVars>>

NextRender == Render

SpecRender == InitRender /\ [][NextRender]_vars

(***************************************************************************)
(* Spec: one invocation of main.                                           *)
(***************************************************************************)
Init ==
    /\ size = 0 /\ rendered = NoPixmap
    /\ platform \in {"win32", "darwin", "other"}
    /\ hasPIL \in BOOLEAN
    /\ hasIconutil \in BOOLEAN
    /\ prior \in BOOLEAN
    /\ pc = "main"
    /\ fs = IF prior THEN PriorFs ELSE [p \in Paths |-> NoFile]
    /\ iconsetExists \in BOOLEAN
    /\ staged = {}
    /\ images = <<>> /\ idx = 0 /\ pixmap = NoPixmap /\ created = FALSE
    /\ result = "None"
    /\ log = <<>>

env == <<platform, hasPIL, hasIconutil, prior>>

\* main: lines 175-192, up to the call of the platform's branch
MainStart ==
    /\ pc = "main"
    /\ log' = Append(log, print("start_" \o platform))
    /\ pc' = IF platform = "win32" THEN "ico_import"
             ELSE IF platform = "darwin" THEN "icns_render"
             ELSE "linux_render"
    /\ UNCHANGED <<renderVars, env, fs, iconsetExists, staged, images, idx,
                   pixmap, created, result>>

\* The path main passes to the platform's packaging code.
OutputPath ==
    IF platform = "win32" THEN IcoFile
    ELSE IF platform = "darwin" THEN IcnsFile
    ELSE PngFile

RenderEv(sz) == Ev("render", sz, "", NoPath)
SaveEv(pm, path, outcome) == Ev("save", pm.side, outcome, path)

(***************************************************************************)
(* create_ico_file                                                         *)
(***************************************************************************)
\* line 77: from PIL import Image; lines 80-81 when it succeeds
IcoImport ==
    /\ pc = "ico_import"
    /\ IF hasPIL
       THEN /\ images' = <<>>
            /\ idx' = 1
            /\ pc' = "ico_render"
            /\ log' = log
       ELSE /\ log' = Append(log, raise("ImportError"))
            /\ pc' = "ico_fallback"
            /\ UNCHANGED <<images, idx>>
    /\ UNCHANGED <<renderVars, env, fs, iconsetExists, staged, pixmap,
                   created, result>>

\* lines 83-93: one turn of the loop; any call of it may raise
IcoRender ==
    /\ pc = "ico_render"
    /\ \E outcome \in {"ok", "raise"} :
          IF outcome = "ok"
          THEN /\ images' = Append(images,
                       PilFromPixmap(create_matrix_icon_pixmap(IcoSizes[idx])))
               /\ log' = Append(log, RenderEv(IcoSizes[idx]))
               /\ idx' = idx + 1
               /\ pc' = IF idx = Len(IcoSizes) THEN "ico_open" ELSE "ico_render"
          ELSE /\ log' = log \o <<RenderEv(IcoSizes[idx]), raise("Exception")>>
               /\ pc' = "ico_except"
               /\ UNCHANGED <<images, idx>>
    /\ UNCHANGED <<renderVars, env, fs, iconsetExists, staged, pixmap,
                   created, result>>

\* line 96: what images[0].save(...) is called on and with
IcoSaveArgs == [im |-> images[1], append_images |-> <<>>]

\* line 96, Image.save opening str(output_path) for writing ("w+b")
IcoSaveOpen ==
    /\ pc = "ico_open"
    /\ \E outcome \in {"ok", "raise"} :
          IF outcome = "ok"
          THEN /\ created' = (fs[OutputPath].kind = "absent")
               /\ fs' = [fs EXCEPT ![OutputPath] = Partial]
               /\ log' = Append(log,
                       Ev("encode", Len(Provided(IcoSaveArgs.im, IcoSaveArgs.append_images)),
                          "ICO", OutputPath))
               /\ pc' = "ico_write"
          ELSE /\ log' = Append(log, raise("OSError"))
               /\ pc' = "ico_except"
               /\ UNCHANGED <<fs, created>>
    /\ UNCHANGED <<renderVars, env, iconsetExists, staged, images, idx,
                   pixmap, result>>

\* line 96, Image.save encoding into the open file; on an error it closes the
\* file and removes it only if this call created it
IcoSaveWrite ==
    /\ pc = "ico_write"
    /\ \E outcome \in {"ok", "raise"} :
          IF outcome = "ok"
          THEN /\ fs' = [fs EXCEPT ![OutputPath] =
                           IcoEncode(IcoSaveArgs.im, IcoSizes, IcoSaveArgs.append_images)]
               /\ log' = log
               /\ pc' = "ico_done"
          ELSE /\ fs' = [fs EXCEPT ![OutputPath] = IF created THEN NoFile ELSE Partial]
               /\ log' = Append(log, raise("OSError"))
               /\ pc' = "ico_except"
    /\ UNCHANGED <<renderVars, env, iconsetExists, staged, images, idx,
                   pixmap, created, result>>

\* lines 97-98
IcoSuccess ==
    /\ pc = "ico_done"
    /\ log' = Append(log, print("ico_ok"))
    /\ result' = "True"
    /\ pc' = "returned"
    /\ UNCHANGED <<renderVars, env, fs, iconsetExists, staged, images, idx,
                   pixmap, created>>

\* lines 99-102: except ImportError
IcoFallbackWarn ==
    /\ pc = "ico_fallback"
    /\ log' = log \o <<print("pillow_missing"), print("pillow_install_hint")>>
    /\ pc' = "ico_fb_render"
    /\ UNCHANGED <<renderVars, env, fs, iconsetExists, staged, images, idx,
                   pixmap, created, result>>

\* line 104, inside the except ImportError clause: an exception raised here is
\* not handled by the except Exception clause beside it
IcoFallbackRender ==
    /\ pc = "ico_fb_render"
    /\ \E outcome \in {"ok", "raise"} :
          IF outcome = "ok"
          THEN /\ pixmap' = create_matrix_icon_pixmap(256)
               /\ log' = Append(log, RenderEv(256))
               /\ pc' = "ico_fb_save"
          ELSE /\ log' = log \o <<RenderEv(256), raise("Exception")>>
               /\ pc' = "crashed"
               /\ UNCHANGED pixmap
    /\ UNCHANGED <<renderVars, env, fs, iconsetExists, staged, images, idx,
                   created, result>>

\* Mutant: the fallback saved at the requested path.
IcoFallbackSave_SamePath ==
    /\ pc = "ico_fb_save"
    /\ \E outcome \in SaveOutcomes :
          /\ fs' = QPixmapSave(fs, OutputPath, pixmap, outcome)
          /\ log' = log \o <<SaveEv(pixmap, OutputPath, outcome),
                             print("png_generated"), print("convert_hint")>>
    /\ result' = "False"
    /\ pc' = "returned"
    /\ UNCHANGED <<renderVars, env, iconsetExists, staged, images, idx,
                   pixmap, created>>

\* lines 103, 105-108
IcoFallbackSave ==
    /\ pc = "ico_fb_save"
    /\ \E outcome \in SaveOutcomes :
          LET png_path == with_suffix(OutputPath, ".png")
          IN  /\ fs' = QPixmapSave(fs, png_path, pixmap, outcome)
              /\ log' = log \o <<SaveEv(pixmap, png_path, outcome),
                                 print("png_generated"), print("convert_hint")>>
    /\ result' = "False"
    /\ pc' = "returned"
    /\ UNCHANGED <<renderVars, env, iconsetExists, staged, images, idx,
                   pixmap, created>>

\* lines 109-111: except Exception
IcoExcept ==
    /\ pc = "ico_except"
    /\ log' = Append(log, print("ico_failed"))
    /\ result' = "False"
    /\ pc' = "returned"
    /\ UNCHANGED <<renderVars, env, fs, iconsetExists, staged, images, idx,
                   pixmap, created>>

(***************************************************************************)
(* create_icns_file                                                        *)
(***************************************************************************)
\* lines 119, 122
IcnsRender ==
    /\ pc = "icns_render"
    /\ \E outcome \in {"ok", "raise"} :
          IF outcome = "ok"
          THEN /\ pixmap' = create_matrix_icon_pixmap(1024)
               /\ log' = Append(log, RenderEv(1024))
               /\ pc' = "icns_save_png"
          ELSE /\ log' = log \o <<RenderEv(1024), raise("Exception")>>
               /\ pc' = "icns_except"
               /\ UNCHANGED pixmap
    /\ UNCHANGED <<renderVars, env, fs, iconsetExists, staged, images, idx,
                   created, result>>

\* lines 123-125
IcnsSavePng ==
    /\ pc = "icns_save_png"
    /\ \E outcome \in SaveOutcomes :
          LET png_path == with_suffix(OutputPath, ".png")
          IN  /\ fs' = QPixmapSave(fs, png_path, pixmap, outcome)
              /\ log' = log \o <<SaveEv(pixmap, png_path, outcome),
                                 print("icns_png_generated"), print("icns_hint")>>
    /\ pc' = "icns_probe"
    /\ UNCHANGED <<renderVars, env, iconsetExists, staged, images, idx,
                   pixmap, created, result>>

\* Mutant: the staging goes ahead without the tool.
IcnsProbe_Always ==
    /\ pc = "icns_probe"
    /\ log' = Append(log, Ev("probe", 0, IF hasIconutil THEN "found" ELSE "missing", NoPath))
    /\ pc' = "icns_mkdir"
    /\ UNCHANGED <<renderVars, env, fs, iconsetExists, staged, images, idx,
                   pixmap, created, result>>

\* lines 128-131 and 165-166: shutil.which('iconutil')
IcnsProbe ==
    /\ pc = "icns_probe"
    /\ log' = Append(log, Ev("probe", 0, IF hasIconutil THEN "found" ELSE "missing", NoPath))
    /\ IF hasIconutil
       THEN /\ pc' = "icns_mkdir"
            /\ UNCHANGED result
       ELSE /\ result' = "False"
            /\ pc' = "returned"
    /\ UNCHANGED <<renderVars, env, fs, iconsetExists, staged, images, idx,
                   pixmap, created>>

\* lines 132-133: iconset_dir.mkdir(exist_ok=True)
IcnsMkdir ==
    /\ pc = "icns_mkdir"
    /\ \E outcome \in {"ok", "raise"} :
          IF outcome = "ok"
          THEN /\ iconsetExists' = TRUE
               /\ log' = Append(log, Ev("mkdir", 0, "app_icon.iconset", NoPath))
               /\ idx' = 1
               /\ pc' = "icns_slot_render"
          ELSE /\ log' = log \o <<Ev("mkdir", 0, "app_icon.iconset", NoPath), raise("OSError")>>
               /\ pc' = "icns_except"
               /\ UNCHANGED <<iconsetExists, idx>>
    /\ UNCHANGED <<renderVars, env, fs, staged, images, pixmap, created, result>>

\* lines 149-150
IcnsSlotRender ==
    /\ pc = "icns_slot_render"
    /\ \E outcome \in {"ok", "raise"} :
          IF outcome = "ok"
          THEN /\ pixmap' = create_matrix_icon_pixmap(IconsetSlots[idx].size)
               /\ log' = Append(log, RenderEv(IconsetSlots[idx].size))
               /\ pc' = "icns_slot_save"
          ELSE /\ log' = log \o <<RenderEv(IconsetSlots[idx].size), raise("Exception")>>
               /\ pc' = "icns_except"
               /\ UNCHANGED pixmap
    /\ UNCHANGED <<renderVars, env, fs, iconsetExists, staged, images, idx,
                   created, result>>

\* line 151: pixmap.save(str(iconset_dir / filename), 'PNG')
IcnsSlotSave ==
    /\ pc = "icns_slot_save"
    /\ \E outcome \in SaveOutcomes :
          /\ staged' = IF outcome = "ok"
                       THEN staged \cup {[name |-> IconsetSlots[idx].name, size |-> pixmap.side]}
                       ELSE staged
          /\ log' = Append(log, Ev("stage", pixmap.side, IconsetSlots[idx].name, NoPath))
    /\ idx' = idx + 1
    /\ pc' = IF idx = Len(IconsetSlots) THEN "icns_run" ELSE "icns_slot_render"
    /\ UNCHANGED <<renderVars, env, fs, iconsetExists, images, pixmap,
                   created, result>>

\* lines 155-156 and 162-164: subprocess.run([... '-o', str(output_path)], check=True).
\* The tool writes at output_path itself; what a failed run leaves there is the tool's.
IcnsRun ==
    /\ pc = "icns_run"
    /\ \E outcome \in {"zero", "nonzero", "oserror"}, left \in {"untouched", "partial"} :
          CASE outcome = "zero" ->
                 /\ left = "untouched"
                 /\ fs' = [fs EXCEPT ![OutputPath] =
                              File("ICNS", SortedSeq({e.size : e \in staged}))]
                 /\ log' = Append(log, Ev("run", 0, outcome, OutputPath))
                 /\ pc' = "icns_done"
                 /\ UNCHANGED result
            [] outcome = "nonzero" ->
                 /\ fs' = IF left = "partial"
                          THEN [fs EXCEPT ![OutputPath] = Partial] ELSE fs
                 /\ log' = log \o <<Ev("run", 0, outcome, OutputPath),
                                    raise("CalledProcessError"), print("iconutil_failed")>>
                 /\ result' = "False"
                 /\ pc' = "returned"
            [] outcome = "oserror" ->
                 /\ left = "untouched"
                 /\ log' = log \o <<Ev("run", 0, outcome, OutputPath), raise("OSError")>>
                 /\ pc' = "icns_except"
                 /\ UNCHANGED <<fs, result>>
    /\ UNCHANGED <<renderVars, env, iconsetExists, staged, images, idx,
                   pixmap, created>>

\* Mutant: the staging directory is left behind.
IcnsSuccess_NoCleanup ==
    /\ pc = "icns_done"
    /\ log' = Append(log, print("icns_ok"))
    /\ result' = "True"
    /\ pc' = "returned"
    /\ UNCHANGED <<renderVars, env, fs, iconsetExists, staged, images, idx,
                   pixmap, created>>

\* lines 157-161: shutil.rmtree(iconset_dir, ignore_errors=True) removes the
\* directory or gives up silently
IcnsSuccess ==
    /\ pc = "icns_done"
    /\ \E removed \in BOOLEAN :
          /\ iconsetExists' = IF removed THEN FALSE ELSE iconsetExists
          /\ staged' = IF removed THEN {} ELSE staged
          /\ log' = log \o <<print("icns_ok"),
                             Ev("rmtree", 0, IF removed THEN "removed" ELSE "error_ignored", NoPath)>>
    /\ result' = "True"
    /\ pc' = "returned"
    /\ UNCHANGED <<renderVars, env, fs, images, idx, pixmap, created>>

\* lines 167-169: except Exception
IcnsExcept ==
    /\ pc = "icns_except"
    /\ log' = Append(log, print("icns_failed"))
    /\ result' = "False"
    /\ pc' = "returned"
    /\ UNCHANGED <<renderVars, env, fs, iconsetExists, staged, images, idx,
                   pixmap, created>>

(***************************************************************************)
(* main's branch for the other platforms: no try around it                 *)
(***************************************************************************)
\* line 193
LinuxRender ==
    /\ pc = "linux_render"
    /\ \E outcome \in {"ok", "raise"} :
          IF outcome = "ok"
          THEN /\ pixmap' = create_matrix_icon_pixmap(256)
               /\ log' = Append(log, RenderEv(256))
               /\ pc' = "linux_save"
          ELSE /\ log' = log \o <<RenderEv(256), raise("Exception")>>
               /\ pc' = "crashed"
               /\ UNCHANGED pixmap
    /\ UNCHANGED <<renderVars, env, fs, iconsetExists, staged, images, idx,
                   created, result>>

\* lines 194-195
LinuxSave ==
    /\ pc = "linux_save"
    /\ \E outcome \in SaveOutcomes :
          /\ fs' = QPixmapSave(fs, OutputPath, pixmap, outcome)
          /\ log' = log \o <<SaveEv(pixmap, OutputPath, outcome), print("linux_png_generated")>>
    /\ pc' = "returned"
    /\ UNCHANGED <<renderVars, env, iconsetExists, staged, images, idx,
                   pixmap, created, result>>

Next ==
    \/ MainStart
    \/ IcoImport \/ IcoRender \/ IcoSaveOpen \/ IcoSaveWrite \/ IcoSuccess
    \/ IcoFallbackWarn \/ IcoFallbackRender \/ IcoFallbackSave \/ IcoExcept
    \/ IcnsRender \/ IcnsSavePng \/ IcnsProbe \/ IcnsMkdir \/ IcnsSlotRender
    \/ IcnsSlotSave \/ IcnsRun \/ IcnsSuccess \/ IcnsExcept
    \/ LinuxRender \/ LinuxSave

Spec == Init /\ [][Next]_vars

Terminal == pc \in {"returned", "crashed"}

(***************************************************************************)
(* Reading the log and the pixmap.                                         *)
(***************************************************************************)
NoRaise == \A i \in DOMAIN log : log[i].ev # "raise"
Events(ev) == {i \in DOMAIN log : log[i].ev = ev}
InitialFs == IF prior THEN PriorFs ELSE [p \in Paths |-> NoFile]

IsBorder(c) == c.op = "rect"
IsDot(c) == c.op = "ellipse"
\* A diagonal changes both coordinates; a corner stroke runs along one axis.
IsDiagonal(c) == c.op = "line" /\ c.a # c.c /\ c.b # c.d
IsCorner(c) == c.op = "line" /\ (c.a = c.c \/ c.b = c.d)
Borders(pm) == {i \in DOMAIN pm.cmds : IsBorder(pm.cmds[i])}
Dots(pm) == {i \in DOMAIN pm.cmds : IsDot(pm.cmds[i])}
Diagonals(pm) == {i \in DOMAIN pm.cmds : IsDiagonal(pm.cmds[i])}
Corners(pm) == {i \in DOMAIN pm.cmds : IsCorner(pm.cmds[i])}

(***************************************************************************)
(* C1 (stated as claimed; the code violates it).  On the Windows path with *)
(* PIL present and no error raised, the container written at the requested *)
(* path holds the six images 16, 32, 48, 64, 128, 256, and all six         *)
(* rendered images were handed to the encoder.                             *)
(***************************************************************************)
C1_SixImagesInContainer ==
    (platform = "win32" /\ hasPIL /\ pc = "returned" /\ NoRaise) =>
        /\ fs[IcoFile] = File("ICO", IcoSizes)
        /\ \E i \in Events("encode") : log[i].n = Len(IcoSizes)

(***************************************************************************)
(* C2 (stated as claimed; the code violates it).  When the invocation has  *)
(* ended, however a packaging step failed, a valid container that was at   *)
(* the output path before the invocation is still a valid container.       *)
(***************************************************************************)
C2_NeverPartiallyWritten ==
    (Terminal /\ prior) =>
        /\ fs[IcoFile].kind = "ICO"
        /\ fs[IcnsFile].kind = "ICNS"

(***************************************************************************)
(* C3 (stated as claimed; the code violates it).  Whatever is missing and  *)
(* whichever call raises, on every platform branch, no exception leaves    *)
(* main.                                                                   *)
(***************************************************************************)
C3_NoExceptionPropagates == pc # "crashed"

(***************************************************************************)
(* C4.  On the macOS path the 1024 render and its save at the .png path    *)
(* come first: the render is the first call of create_icns_file whether or *)
(* not iconutil is there, the save at app_icon.png follows it unless the   *)
(* render raised, and both precede the probe for iconutil, the creation of *)
(* the staging directory, every staged file and the run of the tool.       *)
(***************************************************************************)
C4_PngFirst ==
    platform = "darwin" =>
        /\ pc \notin {"main", "icns_render"} => log[2] = RenderEv(1024)
        /\ (pc \notin {"main", "icns_render", "icns_save_png"} /\ log[3].ev # "raise") =>
              /\ log[3].ev = "save" /\ log[3].n = 1024 /\ log[3].p = PngFile
        /\ \A j \in DOMAIN log :
              log[j].ev \in {"probe", "mkdir", "stage", "run"} =>
                 \E i, k \in 1..(j - 1) :
                    /\ i < k
                    /\ log[i] = RenderEv(1024)
                    /\ log[k].ev = "save" /\ log[k].n = 1024 /\ log[k].p = PngFile

C4_Witness ==
    /\ platform = "darwin" /\ hasIconutil
    /\ Events("run") # {}
    /\ fs[PngFile] = File("PNG", <<1024>>)

(***************************************************************************)
(* C5.  On the macOS path, once iconutil has exited zero: all ten slots    *)
(* were written into the staging directory before the tool ran, nothing    *)
(* raises afterwards, and the function returns True with the container at  *)
(* the requested path and the staging directory removed by rmtree, unless  *)
(* rmtree failed, which is ignored.                                        *)
(***************************************************************************)
C5_ConversionSucceeded ==
    platform = "darwin" =>
        \A r \in Events("run") : log[r].s = "zero" =>
            /\ hasIconutil
            /\ \A s \in DOMAIN IconsetSlots :
                  \E i \in 1..(r - 1) :
                     log[i] = Ev("stage", IconsetSlots[s].size, IconsetSlots[s].name, NoPath)
            /\ Cardinality({i \in Events("stage") : i < r}) = Len(IconsetSlots)
            /\ NoRaise
            /\ pc \in {"icns_done", "returned"}
            /\ pc = "returned" =>
                  /\ result = "True"
                  /\ fs[IcnsFile].kind = "ICNS"
                  /\ \E j \in Events("rmtree") :
                        /\ j > r
                        /\ log[j].s = "removed" => ~iconsetExists /\ staged = {}

C5_Witness ==
    /\ platform = "darwin" /\ pc = "returned" /\ result = "True"
    /\ fs[IcnsFile] = File("ICNS", <<16, 32, 64, 128, 256, 512, 1024>>)
    /\ ~iconsetExists

(***************************************************************************)
(* C6.  On the macOS path, when step 1 wrote the PNG and the function      *)
(* returns without a container because iconutil is missing or because its  *)
(* run failed (non-zero exit, or an OSError launching it), the result is   *)
(* False and the 1024 PNG is at the .png path as step 1 wrote it; and when *)
(* iconutil is missing, no staging directory is made, nothing is staged    *)
(* and the tool is not run.                                                *)
(***************************************************************************)
C6_NoContainerKeepsPng ==
    platform = "darwin" =>
        /\ ( /\ pc = "returned"
             /\ \E k \in Events("save") : log[k].p = PngFile /\ log[k].s = "ok"
             /\ \/ ~hasIconutil
                \/ \E r \in Events("run") : log[r].s \in {"nonzero", "oserror"} )
           => /\ result = "False"
              /\ fs[PngFile] = File("PNG", <<1024>>)
        /\ ~hasIconutil =>
              /\ Events("mkdir") = {} /\ Events("stage") = {} /\ Events("run") = {}
              /\ staged = {}
              /\ fs[IcnsFile] = InitialFs[IcnsFile]

C6_Witness ==
    /\ platform = "darwin" /\ pc = "returned" /\ result = "False"
    /\ \E r \in Events("run") : log[r].s = "nonzero"
    /\ fs[PngFile] = File("PNG", <<1024>>)

(***************************************************************************)
(* C7.  On the Windows path without PIL: nothing is ever written at the    *)
(* .ico path and nothing but 256 is rendered; and when the function        *)
(* returns, it has rendered exactly one image, of 256, has called save     *)
(* exactly once, at the .png path (which then holds the 256 PNG unless the *)
(* save failed), and returns False.                                        *)
(***************************************************************************)
C7_FallbackPng ==
    (platform = "win32" /\ ~hasPIL) =>
        /\ fs[IcoFile] = InitialFs[IcoFile]
        /\ \A i \in DOMAIN log : log[i].p # IcoFile
        /\ Events("encode") = {}
        /\ \A i \in Events("render") : log[i].n = 256
        /\ pc = "returned" =>
              /\ result = "False"
              /\ Cardinality(Events("render")) = 1
              /\ Cardinality(Events("save")) = 1
              /\ \A k \in Events("save") :
                    /\ log[k].p = PngFile /\ log[k].n = 256
                    /\ log[k].s = "ok" => fs[PngFile] = File("PNG", <<256>>)

C7_Witness ==
    /\ platform = "win32" /\ ~hasPIL /\ pc = "returned" /\ result = "False"
    /\ fs[PngFile] = File("PNG", <<256>>)
    /\ fs[IcoFile] = NoFile

(***************************************************************************)
(* C8.  For every size, the rendered pixmap has the side asked for and     *)
(* one border; one dot if size >= 32 and none otherwise; two diagonals if  *)
(* size >= 48 and none otherwise; eight corner strokes if size >= 64 and   *)
(* none otherwise; below 32 it is the background fill and the border only. *)
(***************************************************************************)
C8_Thresholds ==
    rendered # NoPixmap =>
        /\ rendered.side = size
        /\ Cardinality(Borders(rendered)) = 1
        /\ Cardinality(Dots(rendered)) = (IF size >= 32 THEN 1 ELSE 0)
        /\ Cardinality(Diagonals(rendered)) = (IF size >= 48 THEN 2 ELSE 0)
        /\ Cardinality(Corners(rendered)) = (IF size >= 64 THEN 8 ELSE 0)
        /\ size < 32 =>
              /\ Len(rendered.cmds) = 2
              /\ rendered.cmds[1].op = "fill"
              /\ rendered.cmds[2].op = "rect"

C8_Witness ==
    /\ size = 47 /\ rendered # NoPixmap
    /\ Dots(rendered) # {}
    /\ Diagonals(rendered) = {}

(***************************************************************************)
(* C10.  The paint order is the background fill, the border, the           *)
(* diagonals, the dot, the corner strokes: the fill is first and the       *)
(* border second, every diagonal is painted before the dot, and the dot    *)
(* before every corner stroke.                                             *)
(***************************************************************************)
C10_PaintOrder ==
    rendered # NoPixmap =>
        LET c == rendered.cmds
        IN  /\ c[1].op = "fill"
            /\ IsBorder(c[2])
            /\ \A i \in DOMAIN c : i > 1 => c[i].op # "fill"
            /\ \A i \in Diagonals(rendered), j \in Dots(rendered) : 2 < i /\ i < j
            /\ \A i \in Dots(rendered), j \in Corners(rendered) : 2 < i /\ i < j
            /\ \A i \in Diagonals(rendered), j \in Corners(rendered) : i < j

C10_Witness ==
    /\ size = 64 /\ rendered # NoPixmap
    /\ Diagonals(rendered) = {3, 4}
    /\ Dots(rendered) = {5}
    /\ Cardinality(Corners(rendered)) = 8

(***************************************************************************)
(* C9 (stated as claimed; the code violates it).  Whenever a packaging     *)
(* branch has returned, a status line was printed after the last event     *)
(* that decided its outcome (an exception, the probe for iconutil, the run *)
(* of iconutil): no outcome is silent.                                     *)
(***************************************************************************)
Decisions == {i \in DOMAIN log : log[i].ev \in {"raise", "probe", "run"}}

C9_EveryOutcomePrinted ==
    pc = "returned" =>
        \E i \in Events("print") :
            /\ log[i].s \notin {"start_win32", "start_darwin", "start_other"}
            /\ \A d \in Decisions : d < i

====
